---- MODULE Spec2Model ----
(***************************************************************************)
(* A model of the Pictionary Hotline room coordinator (src/server.js):     *)
(* the room registry, the phone (speech relay) and browser WebSocket       *)
(* handlers, the menu / pictionary state machine and the asynchronous      *)
(* word generation call.                                                   *)
(*                                                                         *)
(* JavaScript strings are sequences of one-character strings, so that      *)
(* toLowerCase, trim, replace, split and includes are computed character   *)
(* by character as the code computes them.                                 *)
(***************************************************************************)
EXTENDS Integers, Sequences, FiniteSets, TLC

VARIABLES rooms, socketRoom, sockState, pending, apiKey, sent, last, events

vars == <<rooms, socketRoom, sockState, pending, apiKey, sent, last, events>>

-----------------------------------------------------------------------------
(* Bounds of the model.                                                    *)

\* Events (connections, messages, closes, settled calls) the server handles in a run.
MaxEvents == 6

-----------------------------------------------------------------------------
(* JavaScript values.                                                      *)

\* null / undefined for a string-valued field: no string has a two-letter element.
Null == <<"null">>
\* The openai call rejecting (a thrown error instead of a completion).
Error == <<"error">>
\* null for a socket-valued field.
NoSocket == "none"
\* socketRoom.get(socket) of a socket that was never set.
NoRoom == "undefined"

WordChars == {"a", "b", "c", "d", "e", "f", "g", "h", "i", "j", "k", "l", "m", "n", "o", "p", "q", "r", "s", "t", "u", "v", "w", "x", "y", "z", "A", "B", "C", "D", "E", "F", "G", "H", "I", "J", "K", "L", "M", "N", "O", "P", "Q", "R", "S", "T", "U", "V", "W", "X", "Y", "Z", "0", "1", "2", "3", "4", "5", "6", "7", "8", "9", "_"}

SpaceChars == {" ", "\t", "\n", "\r", "\f"}

\* String.prototype.toLowerCase on one character.
Lower(c) ==
  CASE c = "A" -> "a"
    [] c = "B" -> "b"
    [] c = "C" -> "c"
    [] c = "D" -> "d"
    [] c = "E" -> "e"
    [] c = "F" -> "f"
    [] c = "G" -> "g"
    [] c = "H" -> "h"
    [] c = "I" -> "i"
    [] c = "J" -> "j"
    [] c = "K" -> "k"
    [] c = "L" -> "l"
    [] c = "M" -> "m"
    [] c = "N" -> "n"
    [] c = "O" -> "o"
    [] c = "P" -> "p"
    [] c = "Q" -> "q"
    [] c = "R" -> "r"
    [] c = "S" -> "s"
    [] c = "T" -> "t"
    [] c = "U" -> "u"
    [] c = "V" -> "v"
    [] c = "W" -> "w"
    [] c = "X" -> "x"
    [] c = "Y" -> "y"
    [] c = "Z" -> "z"
    [] OTHER -> c

ToLowerCase(s) == [i \in 1..Len(s) |-> Lower(s[i])]

\* String.prototype.trim: drop leading and trailing whitespace.
Trim(s) ==
  IF \A i \in 1..Len(s) : s[i] \in SpaceChars THEN <<>>
  ELSE LET lo == CHOOSE i \in 1..Len(s) :
                   s[i] \notin SpaceChars /\ \A j \in 1..(i - 1) : s[j] \in SpaceChars
           hi == CHOOSE i \in 1..Len(s) :
                   s[i] \notin SpaceChars /\ \A j \in (i + 1)..Len(s) : s[j] \in SpaceChars
       IN SubSeq(s, lo, hi)

\* String.prototype.includes.
Includes(s, sub) ==
  \E i \in 0..(Len(s) - Len(sub)) : SubSeq(s, i + 1, i + Len(sub)) = sub

\* s.split(sep)[0] for a one-character separator: the part before its first occurrence.
SplitFirst(s, sep) ==
  IF \A i \in 1..Len(s) : s[i] # sep THEN s
  ELSE SubSeq(s, 1, (CHOOSE i \in 1..Len(s) :
                       s[i] = sep /\ \A j \in 1..(i - 1) : s[j] # sep) - 1)

\* text.replace(/[^\w\s]/g, " ")
ReplaceNonWord(s) ==
  [i \in 1..Len(s) |-> IF s[i] \in WordChars \cup SpaceChars THEN s[i] ELSE " "]

S_quit == <<"q", "u", "i", "t">>
S_exit == <<"e", "x", "i", "t">>
S_random == <<"r", "a", "n", "d", "o", "m">>
S_caller == <<"c", "a", "l", "l", "e", "r">>
S_drawer == <<"d", "r", "a", "w", "e", "r">>

\* The test for "random" without the i flag.
TestRandom_caseSensitive(theme) == Includes(theme, S_random)

\* /random/i.test(theme)
TestRandom(theme) == Includes(ToLowerCase(theme), S_random)

\* A JavaScript string used as a condition: null, undefined and "" are falsy.
Truthy(s) == s # Null /\ s # <<>>

-----------------------------------------------------------------------------
(* The fixed word list.                                                    *)

W_bear == <<"b", "e", "a", "r">>
W_spaceship == <<"s", "p", "a", "c", "e", "s", "h", "i", "p">>
W_pizza == <<"p", "i", "z", "z", "a">>
W_guitar == <<"g", "u", "i", "t", "a", "r">>
W_castle == <<"c", "a", "s", "t", "l", "e">>

PICTIONARY_WORDS == <<W_bear, W_spaceship, W_pizza, W_guitar, W_castle>>

\* pickRandomWord(list): any element of the list.
pickRandomWord(list) == {list[i] : i \in 1..Len(list)}

-----------------------------------------------------------------------------
(* Inputs: what the callers say, what browsers send, what the text         *)
(* generation service answers.                                             *)

U_theme == <<"p", "i", "z", "z", "a", " ", "t", "o", "p", "p", "i", "n", "g", "s">>
U_random == <<"R", "a", "n", "d", "o", "m">>
U_guess == <<"I", "s", " ", "i", "t", " ", "p", "e", "p", "p", "e", "r", "o", "n", "i", "?">>
U_quit == <<"I", " ", "q", "u", "i", "t", ".">>
U_blank == <<" ">>

R_pepperoni == <<"p", "e", "p", "p", "e", "r", "o", "n", "i">>
R_blank == <<" ", "\n">>

\* The connections. Phone connections are named by the order in which the server
\* accepts them; accepting a browser connection only registers its listeners, so
\* the browser connections are there from the start.
PhoneOrder == <<"p1", "p2">>
PhoneSockets == {PhoneOrder[i] : i \in 1..Len(PhoneOrder)}
WebSockets == {"w1", "w2"}
Sockets == PhoneSockets \cup WebSockets

\* The roomId of a connection URL or of a joinWeb message; "" is a missing one.
RoomIdInputs == {"4242", ""}
\* The recognized text of a prompt message.
Utterances == {U_theme, U_random, U_guess, U_quit, U_blank}
\* What the caller says in a game: a theme, a guess, a farewell.
RoundUtterances == {U_theme, U_guess, U_quit}
\* The text of the completion the service returns, or Error when the call throws.
WordSourceReplies == {R_pepperoni, R_blank, Error}
RoundReplies == {R_pepperoni, Error}
\* The role of a joinWeb message; <<>> is a missing one.
RoleInputs == {S_drawer, <<"C", "a", "l", "l", "e", "r">>, <<>>}
\* The coordinates of a drawSegment message: the drawer draws one line, each
\* segment going on from the end of the n segments stored so far.
SegmentInputs(n) == {[x1 |-> n, y1 |-> n, x2 |-> n + 1, y2 |-> n + 1]}
\* The text of a drawerChat message.
ChatInputs == {<<"h", "i", "n", "t">>}

-----------------------------------------------------------------------------
(* The room registry.                                                      *)

\* The room object getRoom creates on the first lookup of an id.
NewRoom(id) ==
  [id |-> id, phoneSocket |-> NoSocket, drawerSocket |-> NoSocket, callerSocket |-> NoSocket,
   mode |-> "menu", targetWord |-> Null, drawSegments |-> <<>>, theme |-> Null]

\* getRoom that makes a new room on every lookup.
getRoom_alwaysNew(id) == (id :> NewRoom(id)) @@ rooms

\* getRoom(id): the registry after the lookup; the room itself is getRoom(id)[id].
getRoom(id) == IF id \in DOMAIN rooms THEN rooms ELSE rooms @@ (id :> NewRoom(id))

\* x || "0000" for a room id that may be missing.
RoomIdOrDefault(x) == IF x = "" \/ x = NoRoom THEN "0000" ELSE x

\* resetRoom without the drawSegments line.
resetRoom_keepsDrawing(room) ==
  [room EXCEPT !.mode = "menu", !.targetWord = Null, !.theme = Null]

resetRoom(room) ==
  [room EXCEPT !.mode = "menu", !.targetWord = Null, !.theme = Null, !.drawSegments = <<>>]

-----------------------------------------------------------------------------
(* Sending. out is the sequence of socket.send calls of the handler so far. *)

Send(sock, msg, out) == Append(out, [to |-> sock, msg |-> msg])

\* The spoken texts; arg is the interpolated value, <<>> when there is none.
Say(id, arg) == [id |-> id, arg |-> arg]

\* sendToPhone with its guard inverted: it returns when a phone is attached.
sendToPhone_guardInverted(room, text, out) ==
  IF room.phoneSocket # NoSocket THEN out
  ELSE Send(room.phoneSocket, [type |-> "text", token |-> text, last |-> TRUE], out)

sendToPhone(room, text, out) ==
  IF room.phoneSocket = NoSocket THEN out
  ELSE Send(room.phoneSocket, [type |-> "text", token |-> text, last |-> TRUE], out)

\* sendToWeb without the drawerSocket line.
sendToWeb_callerOnly(room, payload, out) ==
  IF room.callerSocket # NoSocket THEN Send(room.callerSocket, payload, out) ELSE out

\* sendToWeb without the callerSocket line.
sendToWeb_drawerOnly(room, payload, out) ==
  IF room.drawerSocket # NoSocket THEN Send(room.drawerSocket, payload, out) ELSE out

sendToWeb(room, payload, out) ==
  LET o1 == IF room.drawerSocket # NoSocket THEN Send(room.drawerSocket, payload, out) ELSE out
  IN IF room.callerSocket # NoSocket THEN Send(room.callerSocket, payload, o1) ELSE o1

-----------------------------------------------------------------------------
(* Word generation.                                                        *)

\* Whether generatePictionaryWord(themeRaw) reaches the awaited openai call.
CallsRemote(themeRaw) ==
  LET theme == Trim(IF themeRaw = Null THEN <<>> ELSE themeRaw)
  IN apiKey /\ theme # <<>> /\ ~TestRandom(theme)

\* generatePictionaryWord without its catch: the rejection goes on as the word.
generatePictionaryWord_noCatch(themeRaw, reply, pick) ==
  LET theme == Trim(IF themeRaw = Null THEN <<>> ELSE themeRaw)
  IN IF ~apiKey THEN pick
     ELSE IF theme = <<>> \/ TestRandom(theme) THEN pick
     ELSE IF reply = Error THEN Error
     ELSE LET raw == Trim(reply)
              firstLine == Trim(SplitFirst(raw, "\n"))
          IN IF firstLine = <<>> THEN pick ELSE firstLine

\* The word generatePictionaryWord(themeRaw) resolves to: reply is the text of the
\* completion (Error when the call throws), pick the word pickRandomWord returns.
generatePictionaryWord(themeRaw, reply, pick) ==
  LET theme == Trim(IF themeRaw = Null THEN <<>> ELSE themeRaw)
  IN IF ~apiKey THEN pick
     ELSE IF theme = <<>> \/ TestRandom(theme) THEN pick
     ELSE IF reply = Error THEN pick
     ELSE LET raw == Trim(reply)
              firstLine == Trim(SplitFirst(raw, "\n"))
          IN IF firstLine = <<>> THEN pick ELSE firstLine

-----------------------------------------------------------------------------
(* The state machine. Each operator gives the room and the sends after it. *)

\* startPictionary that always draws from the list, whatever word it is given.
startPictionary_ignoresWord(room, explicitWord, pick, out) ==
  LET r1 == [room EXCEPT !.mode = "pictionary", !.targetWord = pick, !.drawSegments = <<>>]
      o1 == sendToPhone(r1, Say("Great choice", <<>>), out)
      o2 == sendToWeb(r1, [type |-> "pictionaryStart", word |-> r1.targetWord], o1)
  IN [room |-> r1, out |-> o2]

startPictionary(room, explicitWord, pick, out) ==
  LET r1 == [room EXCEPT !.mode = "pictionary",
                         !.targetWord = IF Truthy(explicitWord) THEN explicitWord ELSE pick,
                         !.drawSegments = <<>>]
      o1 == sendToPhone(r1, Say("Great choice", <<>>), out)
      o2 == sendToWeb(r1, [type |-> "pictionaryStart", word |-> r1.targetWord], o1)
  IN [room |-> r1, out |-> o2]

\* backToMenu without the targetWord line.
backToMenu_keepsWord(room, out) ==
  LET r1 == [room EXCEPT !.mode = "menu", !.theme = Null]
      o1 == sendToPhone(r1, Say("Round complete", <<>>), out)
      o2 == sendToWeb(r1, [type |-> "menu"], o1)
  IN [room |-> r1, out |-> o2]

\* backToMenu without the theme line.
backToMenu_keepsTheme(room, out) ==
  LET r1 == [room EXCEPT !.mode = "menu", !.targetWord = Null]
      o1 == sendToPhone(r1, Say("Round complete", <<>>), out)
      o2 == sendToWeb(r1, [type |-> "menu"], o1)
  IN [room |-> r1, out |-> o2]

backToMenu(room, out) ==
  LET r1 == [room EXCEPT !.mode = "menu", !.targetWord = Null, !.theme = Null]
      o1 == sendToPhone(r1, Say("Round complete", <<>>), out)
      o2 == sendToWeb(r1, [type |-> "menu"], o1)
  IN [room |-> r1, out |-> o2]

\* The quit test without its first half: text.includes("exit").
IsQuit_exitOnly(text) == Includes(text, S_exit)

\* text.includes("quit") || text.includes("exit"), text being lower-cased and trimmed.
IsQuit(text) == Includes(text, S_quit) \/ Includes(text, S_exit)

\* The test of the pictionary branch comparing the whole target phrase.
GuessMatches_fullPhrase(targetWord, text) ==
  LET target == ToLowerCase(IF targetWord = Null THEN <<>> ELSE targetWord)
      normalized == ReplaceNonWord(text)
  IN target # <<>> /\ Includes(normalized, target)

\* The test of the pictionary branch: the normalized text includes the part of
\* the lower-cased target before its first space.
GuessMatches(targetWord, text) ==
  LET target == ToLowerCase(IF targetWord = Null THEN <<>> ELSE targetWord)
      normalized == ReplaceNonWord(text)
  IN target # <<>> /\ Includes(normalized, SplitFirst(target, " "))

\* What a run of handlePhonePrompt leaves: the room, the sends, whether
\* phoneSocket.close() was called, and the branch it took: "empty", "quit",
\* "correct", "wrong", "none", or "menu", where it stands at its await, about to
\* call generatePictionaryWord.
Handled(room, out, close, branch) ==
  [room |-> room, out |-> out, close |-> close, branch |-> branch]

\* handlePhonePrompt(room, textRaw) up to its await.
handlePhonePrompt(room, textRaw) ==
  LET text == Trim(ToLowerCase(textRaw))
  IN IF text = <<>>
       THEN Handled(room, <<>>, FALSE, "empty")
     ELSE IF IsQuit(text)
       THEN Handled(room, sendToPhone(room, Say("Goodbye", <<>>), <<>>),
                    room.phoneSocket # NoSocket, "quit")
     ELSE IF room.mode = "menu"
       THEN LET r1 == [room EXCEPT !.theme = textRaw]
            IN Handled(r1, sendToPhone(r1, Say("Nice theme", textRaw), <<>>), FALSE, "menu")
     ELSE IF room.mode = "pictionary"
       THEN IF GuessMatches(room.targetWord, text)
              THEN LET o1 == sendToPhone(room, Say("You got it", room.targetWord), <<>>)
                       o2 == sendToWeb(room, [type |-> "roundResult", outcome |-> "correct",
                                              word |-> room.targetWord], o1)
                       bm == backToMenu(room, o2)
                   IN Handled(bm.room, bm.out, FALSE, "correct")
              ELSE LET o1 == sendToPhone(room, Say("Guess again", <<>>), <<>>)
                       o2 == sendToWeb(room, [type |-> "guess", guess |-> textRaw,
                                              correct |-> FALSE], o1)
                   IN Handled(room, o2, FALSE, "wrong")
     ELSE Handled(room, <<>>, FALSE, "none")

\* handlePhonePrompt dropping the word it awaited: nothing happens after the await.
resumePhonePrompt_dropsWord(room, themeRaw, reply, pick, out) ==
  [room |-> room, out |-> out]

\* handlePhonePrompt from its await on: the word generatePictionaryWord resolved
\* to goes to startPictionary.
resumePhonePrompt(room, themeRaw, reply, pick, out) ==
  startPictionary(room, generatePictionaryWord(themeRaw, reply, pick), pick, out)

-----------------------------------------------------------------------------
(* State.                                                                  *)

Init ==
  /\ rooms = <<>>
  /\ socketRoom = [s \in Sockets |-> NoRoom]
  /\ sockState = [s \in Sockets |-> IF s \in WebSockets THEN "open" ELSE "new"]
  /\ pending = <<>>
  /\ apiKey \in BOOLEAN
  /\ sent = <<>>
  /\ last = [op |-> "start", sock |-> NoSocket, room |-> NoRoom, text |-> <<>>]
  /\ events = 0

\* socket.close(): an open socket starts closing; its close event comes later.
CloseSocket(state, sock) ==
  IF sock # NoSocket /\ state[sock] = "open" THEN [state EXCEPT ![sock] = "closing"] ELSE state

\* The next connection the server accepts is the first of the order not yet used.
Accepts(order, s) ==
  \E i \in 1..Len(order) :
    /\ order[i] = s
    /\ sockState[s] = "new"
    /\ \A j \in 1..(i - 1) : sockState[order[j]] # "new"

\* A suspended handlePhonePrompt: the room and the theme it holds, and what has
\* happened in its room since it was suspended: the speech channel's close
\* event (hangup), a quit or exit utterance (quit).
Call(roomId, themeRaw) == [room |-> roomId, theme |-> themeRaw, hangup |-> FALSE, quit |-> FALSE]

\* The suspended handlers left when the i-th goes on.
Settled(calls, i) == SubSeq(calls, 1, i - 1) \o SubSeq(calls, i + 1, Len(calls))

\* The suspended handlers of a room see one more of those.
Mark(calls, roomId, what) ==
  [i \in 1..Len(calls) |->
     IF calls[i].room # roomId THEN calls[i]
     ELSE IF what = "hangup" THEN [calls[i] EXCEPT !.hangup = TRUE]
     ELSE [calls[i] EXCEPT !.quit = TRUE]]

\* One more event is handled: the handler that runs, the socket whose event it
\* is (none for a settled call), the room it works on and the text it is given.
Handle(op, sock, roomId, text) ==
  /\ events < MaxEvents
  /\ events' = events + 1
  /\ last' = [op |-> op, sock |-> sock, room |-> roomId, text |-> text]

\* A socket whose events the server still receives.
Live(s) == sockState[s] \in {"open", "closing"}

-----------------------------------------------------------------------------
(* The phone WebSocket, /ws.                                               *)

\* PhoneOpen closing the phone socket it displaces.
PhoneOpen_closesPrevious(p, roomIdIn) ==
  /\ Accepts(PhoneOrder, p)
  /\ Handle("phoneOpen", p, RoomIdOrDefault(roomIdIn), <<>>)
  /\ LET roomId == RoomIdOrDefault(roomIdIn)
         room == [getRoom(roomId)[roomId] EXCEPT !.phoneSocket = p]
     IN /\ socketRoom' = [socketRoom EXCEPT ![p] = roomId]
        /\ rooms' = [getRoom(roomId) EXCEPT ![roomId] = room]
        /\ sent' = sendToWeb(room, [type |-> "status", message |-> "Caller connected"], <<>>)
        /\ sockState' = [CloseSocket(sockState, getRoom(roomId)[roomId].phoneSocket)
                           EXCEPT ![p] = "open"]
  /\ UNCHANGED <<pending, apiKey>>

PhoneOpen(p, roomIdIn) ==
  /\ Accepts(PhoneOrder, p)
  /\ Handle("phoneOpen", p, RoomIdOrDefault(roomIdIn), <<>>)
  /\ LET roomId == RoomIdOrDefault(roomIdIn)
         room == [getRoom(roomId)[roomId] EXCEPT !.phoneSocket = p]
     IN /\ socketRoom' = [socketRoom EXCEPT ![p] = roomId]
        /\ rooms' = [getRoom(roomId) EXCEPT ![roomId] = room]
        /\ sent' = sendToWeb(room, [type |-> "status", message |-> "Caller connected"], <<>>)
  /\ sockState' = [sockState EXCEPT ![p] = "open"]
  /\ UNCHANGED <<pending, apiKey>>

\* A prompt message: handlePhonePrompt(room, text) on the room the socket opened
\* with. When generatePictionaryWord answers from the fixed list, nothing is
\* awaited on the network and the handler runs on to its end before the next event.
PhonePrompt(p, textRaw) ==
  /\ Live(p)
  /\ Handle("prompt", p, socketRoom[p], textRaw)
  /\ \E roomId \in {socketRoom[p]} :
     \E h \in {handlePhonePrompt(rooms[roomId], textRaw)} :
       \/ /\ h.branch # "menu"
          /\ rooms' = [rooms EXCEPT ![roomId] = h.room]
          /\ sockState' = IF h.close THEN CloseSocket(sockState, h.room.phoneSocket)
                          ELSE sockState
          /\ sent' = h.out
          /\ pending' = IF h.branch = "quit" THEN Mark(pending, roomId, "quit") ELSE pending
       \/ /\ h.branch = "menu"
          /\ CallsRemote(textRaw)
          /\ rooms' = [rooms EXCEPT ![roomId] = h.room]
          /\ pending' = Append(pending, Call(roomId, textRaw))
          /\ sent' = h.out
          /\ UNCHANGED sockState
       \/ /\ h.branch = "menu"
          /\ ~CallsRemote(textRaw)
          /\ \E pick \in pickRandomWord(PICTIONARY_WORDS) :
             \E sp \in {resumePhonePrompt(h.room, textRaw, Error, pick, h.out)} :
               /\ rooms' = [rooms EXCEPT ![roomId] = sp.room]
               /\ sent' = sp.out
          /\ UNCHANGED <<pending, sockState>>
  /\ UNCHANGED <<socketRoom, apiKey>>

\* The awaited openai call of a suspended handlePhonePrompt settles, and the
\* handler goes on.
WordSourceReturn(i, reply) ==
  /\ i \in 1..Len(pending)
  /\ Handle("wordReturn", NoSocket, pending[i].room, reply)
  /\ \E roomId \in {pending[i].room}, pick \in pickRandomWord(PICTIONARY_WORDS) :
     \E sp \in {resumePhonePrompt(rooms[roomId], pending[i].theme, reply, pick, <<>>)} :
       /\ rooms' = [rooms EXCEPT ![roomId] = sp.room]
       /\ sent' = sp.out
  /\ pending' = Settled(pending, i)
  /\ UNCHANGED <<socketRoom, sockState, apiKey>>

\* A message that is not JSON, or whose type is not "prompt".
PhoneOther(p) ==
  /\ Live(p)
  /\ Handle("phoneOther", p, socketRoom[p], <<>>)
  /\ sent' = <<>>
  /\ UNCHANGED <<rooms, socketRoom, sockState, pending, apiKey>>

\* PhoneClose announcing the menu before the status.
PhoneClose_menuFirst(p) ==
  /\ Live(p)
  /\ Handle("phoneClose", p, RoomIdOrDefault(socketRoom[p]), <<>>)
  /\ LET roomId == RoomIdOrDefault(socketRoom[p])
         room == resetRoom([getRoom(roomId)[roomId] EXCEPT !.phoneSocket = NoSocket])
         o1 == sendToWeb(room, [type |-> "menu"], <<>>)
         o2 == sendToWeb(room, [type |-> "status", message |-> "Caller disconnected"], o1)
     IN /\ rooms' = [getRoom(roomId) EXCEPT ![roomId] = room]
        /\ sent' = o2
        /\ pending' = Mark(pending, roomId, "hangup")
  /\ sockState' = [sockState EXCEPT ![p] = "closed"]
  /\ UNCHANGED <<socketRoom, apiKey>>

PhoneClose(p) ==
  /\ Live(p)
  /\ Handle("phoneClose", p, RoomIdOrDefault(socketRoom[p]), <<>>)
  /\ LET roomId == RoomIdOrDefault(socketRoom[p])
         room == resetRoom([getRoom(roomId)[roomId] EXCEPT !.phoneSocket = NoSocket])
         o1 == sendToWeb(room, [type |-> "status", message |-> "Caller disconnected"], <<>>)
         o2 == sendToWeb(room, [type |-> "menu"], o1)
     IN /\ rooms' = [getRoom(roomId) EXCEPT ![roomId] = room]
        /\ sent' = o2
        /\ pending' = Mark(pending, roomId, "hangup")
  /\ sockState' = [sockState EXCEPT ![p] = "closed"]
  /\ UNCHANGED <<socketRoom, apiKey>>

-----------------------------------------------------------------------------
(* The browser WebSocket, /ws-web.                                         *)

\* The role compared as it was sent: (parsed.role || "drawer") without toLowerCase().
JoinRole_caseSensitive(roleIn) ==
  LET role == IF Truthy(roleIn) THEN roleIn ELSE S_drawer
  IN IF role # S_caller THEN S_drawer ELSE role

\* (parsed.role || "drawer").toLowerCase(), and anything but "caller" is "drawer".
JoinRole(roleIn) ==
  LET role == ToLowerCase(IF Truthy(roleIn) THEN roleIn ELSE S_drawer)
  IN IF role # S_caller THEN S_drawer ELSE role

\* JoinWeb without the replay of the stored drawing.
JoinWeb_noReplay(w, roomIdIn, roleIn) ==
  /\ Live(w)
  /\ Handle("joinWeb", w, RoomIdOrDefault(roomIdIn), <<>>)
  /\ LET roomId == RoomIdOrDefault(roomIdIn)
         role == JoinRole(roleIn)
         room == IF role = S_drawer
                   THEN [getRoom(roomId)[roomId] EXCEPT !.drawerSocket = w]
                   ELSE [getRoom(roomId)[roomId] EXCEPT !.callerSocket = w]
         status == IF room.phoneSocket # NoSocket
                     THEN IF room.mode = "pictionary" THEN "Round in progress"
                          ELSE "Caller is on the line"
                     ELSE "Waiting for caller"
         o1 == Send(w, [type |-> "status", message |-> status], <<>>)
         o3 == IF room.mode = "pictionary" /\ Truthy(room.targetWord)
                 THEN Send(w, [type |-> "pictionaryStart", word |-> room.targetWord], o1)
               ELSE IF room.mode = "menu" THEN Send(w, [type |-> "menu"], o1)
               ELSE o1
     IN /\ socketRoom' = [socketRoom EXCEPT ![w] = roomId]
        /\ rooms' = [getRoom(roomId) EXCEPT ![roomId] = room]
        /\ sent' = o3
  /\ UNCHANGED <<sockState, pending, apiKey>>

JoinWeb(w, roomIdIn, roleIn) ==
  /\ Live(w)
  /\ Handle("joinWeb", w, RoomIdOrDefault(roomIdIn), <<>>)
  /\ LET roomId == RoomIdOrDefault(roomIdIn)
         role == JoinRole(roleIn)
         room == IF role = S_drawer
                   THEN [getRoom(roomId)[roomId] EXCEPT !.drawerSocket = w]
                   ELSE [getRoom(roomId)[roomId] EXCEPT !.callerSocket = w]
         status == IF room.phoneSocket # NoSocket
                     THEN IF room.mode = "pictionary" THEN "Round in progress"
                          ELSE "Caller is on the line"
                     ELSE "Waiting for caller"
         o1 == Send(w, [type |-> "status", message |-> status], <<>>)
         o2 == IF Len(room.drawSegments) > 0
                 THEN Send(w, [type |-> "initDrawing", segments |-> room.drawSegments], o1)
                 ELSE o1
         o3 == IF room.mode = "pictionary" /\ Truthy(room.targetWord)
                 THEN Send(w, [type |-> "pictionaryStart", word |-> room.targetWord], o2)
               ELSE IF room.mode = "menu" THEN Send(w, [type |-> "menu"], o2)
               ELSE o2
     IN /\ socketRoom' = [socketRoom EXCEPT ![w] = roomId]
        /\ rooms' = [getRoom(roomId) EXCEPT ![roomId] = room]
        /\ sent' = o3
  /\ UNCHANGED <<sockState, pending, apiKey>>

\* DrawSegment forwarding the stroke whoever sent it.
DrawSegment_anySender(w, seg) ==
  /\ Live(w)
  /\ Handle("drawSegment", w, RoomIdOrDefault(socketRoom[w]), <<>>)
  /\ LET roomId == RoomIdOrDefault(socketRoom[w])
         old == getRoom(roomId)[roomId]
         room == [old EXCEPT !.drawSegments = Append(@, seg)]
     IN /\ seg \in SegmentInputs(Len(old.drawSegments))
        /\ rooms' = [getRoom(roomId) EXCEPT ![roomId] = room]
        /\ sent' = IF room.callerSocket # NoSocket
                     THEN Send(room.callerSocket,
                               [type |-> "drawSegment", x1 |-> seg.x1, y1 |-> seg.y1,
                                x2 |-> seg.x2, y2 |-> seg.y2], <<>>)
                     ELSE <<>>
  /\ UNCHANGED <<socketRoom, sockState, pending, apiKey>>

DrawSegment(w, seg) ==
  /\ Live(w)
  /\ Handle("drawSegment", w, RoomIdOrDefault(socketRoom[w]), <<>>)
  /\ LET roomId == RoomIdOrDefault(socketRoom[w])
         old == getRoom(roomId)[roomId]
         room == [old EXCEPT !.drawSegments = Append(@, seg)]
     IN /\ seg \in SegmentInputs(Len(old.drawSegments))
        /\ rooms' = [getRoom(roomId) EXCEPT ![roomId] = room]
        /\ sent' = IF w = room.drawerSocket /\ room.callerSocket # NoSocket
                     THEN Send(room.callerSocket,
                               [type |-> "drawSegment", x1 |-> seg.x1, y1 |-> seg.y1,
                                x2 |-> seg.x2, y2 |-> seg.y2], <<>>)
                     ELSE <<>>
  /\ UNCHANGED <<socketRoom, sockState, pending, apiKey>>

DrawerChat(w, text) ==
  /\ Live(w)
  /\ Handle("drawerChat", w, RoomIdOrDefault(socketRoom[w]), text)
  /\ LET roomId == RoomIdOrDefault(socketRoom[w])
         room == getRoom(roomId)[roomId]
         o1 == sendToPhone(room, Say("Chat", text), <<>>)
         o2 == IF room.drawerSocket # NoSocket
                 THEN Send(room.drawerSocket, [type |-> "drawerChat", text |-> text], o1)
                 ELSE o1
         o3 == IF room.callerSocket # NoSocket
                 THEN Send(room.callerSocket, [type |-> "drawerChat", text |-> text], o2)
                 ELSE o2
     IN /\ rooms' = getRoom(roomId)
        /\ sent' = o3
  /\ UNCHANGED <<socketRoom, sockState, pending, apiKey>>

ClearCanvas(w) ==
  /\ Live(w)
  /\ Handle("clearCanvas", w, RoomIdOrDefault(socketRoom[w]), <<>>)
  /\ LET roomId == RoomIdOrDefault(socketRoom[w])
         room == [getRoom(roomId)[roomId] EXCEPT !.drawSegments = <<>>]
         o1 == IF room.drawerSocket # NoSocket
                 THEN Send(room.drawerSocket, [type |-> "clearCanvas"], <<>>)
                 ELSE <<>>
         o2 == IF room.callerSocket # NoSocket
                 THEN Send(room.callerSocket, [type |-> "clearCanvas"], o1)
                 ELSE o1
     IN /\ rooms' = [getRoom(roomId) EXCEPT ![roomId] = room]
        /\ sent' = o2
  /\ UNCHANGED <<socketRoom, sockState, pending, apiKey>>

\* WebOther taking a message of an unknown type for clearCanvas.
WebOther_clears(w) ==
  /\ Live(w)
  /\ Handle("webOther", w, RoomIdOrDefault(socketRoom[w]), <<>>)
  /\ LET roomId == RoomIdOrDefault(socketRoom[w])
     IN /\ rooms' = [getRoom(roomId) EXCEPT ![roomId] = resetRoom(@)]
  /\ sent' = <<>>
  /\ UNCHANGED <<socketRoom, sockState, pending, apiKey>>

\* A JSON message of any other type (callerAnswer, or one the server does not
\* know): the room is looked up, and nothing else happens.
WebOther(w) ==
  /\ Live(w)
  /\ Handle("webOther", w, RoomIdOrDefault(socketRoom[w]), <<>>)
  /\ LET roomId == RoomIdOrDefault(socketRoom[w])
     IN /\ rooms' = getRoom(roomId)
  /\ sent' = <<>>
  /\ UNCHANGED <<socketRoom, sockState, pending, apiKey>>

\* A message that is not JSON: the handler returns before any lookup.
WebNonJson(w) ==
  /\ Live(w)
  /\ Handle("webNonJson", w, NoRoom, <<>>)
  /\ sent' = <<>>
  /\ UNCHANGED <<rooms, socketRoom, sockState, pending, apiKey>>

WebClose(w) ==
  /\ Live(w)
  /\ Handle("webClose", w, RoomIdOrDefault(socketRoom[w]), <<>>)
  /\ LET roomId == RoomIdOrDefault(socketRoom[w])
         old == getRoom(roomId)[roomId]
         room == [old EXCEPT !.drawerSocket = IF @ = w THEN NoSocket ELSE @,
                             !.callerSocket = IF @ = w THEN NoSocket ELSE @]
     IN /\ rooms' = [getRoom(roomId) EXCEPT ![roomId] = room]
  /\ sockState' = [sockState EXCEPT ![w] = "closed"]
  /\ sent' = <<>>
  /\ UNCHANGED <<socketRoom, pending, apiKey>>

-----------------------------------------------------------------------------

Next ==
  \/ \E p \in PhoneSockets, r \in RoomIdInputs : PhoneOpen(p, r)
  \/ \E p \in PhoneSockets, u \in Utterances : PhonePrompt(p, u)
  \/ \E i \in 1..MaxEvents, reply \in WordSourceReplies : WordSourceReturn(i, reply)
  \/ \E p \in PhoneSockets : PhoneOther(p)
  \/ \E p \in PhoneSockets : PhoneClose(p)
  \/ \E w \in WebSockets, r \in RoomIdInputs, role \in RoleInputs : JoinWeb(w, r, role)
  \/ \E w \in WebSockets, n \in 0..MaxEvents : \E seg \in SegmentInputs(n) : DrawSegment(w, seg)
  \/ \E w \in WebSockets, text \in ChatInputs : DrawerChat(w, text)
  \/ \E w \in WebSockets : ClearCanvas(w)
  \/ \E w \in WebSockets : WebOther(w)
  \/ \E w \in WebSockets : WebNonJson(w)
  \/ \E w \in WebSockets : WebClose(w)

Spec == Init /\ [][Next]_vars

\* The browsers that have sent joinWeb.
Joined == {w \in WebSockets : socketRoom[w] # NoRoom}

\* One game: every connection names room 4242, and a browser joins before it
\* sends anything else, as the page's script does.
NextRound ==
  \/ \E p \in PhoneSockets : PhoneOpen(p, "4242")
  \/ \E p \in PhoneSockets, u \in RoundUtterances : PhonePrompt(p, u)
  \/ \E i \in 1..MaxEvents, reply \in RoundReplies : WordSourceReturn(i, reply)
  \/ \E p \in PhoneSockets : PhoneClose(p)
  \/ \E w \in WebSockets, role \in RoleInputs : JoinWeb(w, "4242", role)
  \/ \E w \in Joined, n \in 0..MaxEvents : \E seg \in SegmentInputs(n) : DrawSegment(w, seg)
  \/ \E w \in Joined : ClearCanvas(w)
  \/ \E w \in Joined : WebClose(w)

SpecRound == Init /\ [][NextRound]_vars

-----------------------------------------------------------------------------
(* Reading the state.                                                      *)

\* The messages the last handler sent to socket s, in the order of sending.
SentTo(s) == SelectSeq(sent, LAMBDA m : m.to = s)

\* The last handler sent a message of this type.
SentType(type) == \E k \in 1..Len(sent) : sent[k].msg.type = type

\* The last handler spoke this text to a phone.
SentSay(id) ==
  \E k \in 1..Len(sent) : sent[k].msg.type = "text" /\ sent[k].msg.token.id = id

\* The browsers attached to a room.
Browsers(room) == {room.drawerSocket, room.callerSocket} \ {NoSocket}

\* This step is the handling of one event of this kind.
Step(op) == events' = events + 1 /\ last'.op = op

\* The branch handlePhonePrompt takes on a prompt event, from the state before it.
Branch(event) == handlePhonePrompt(rooms[event.room], event.text).branch

\* The last handler was a round start: startPictionary's sends and, before them,
\* at most the theme's acknowledgement (a join replays pictionaryStart after a status).
RoundStartSent == SentType("pictionaryStart") /\ ~SentType("status")

-----------------------------------------------------------------------------
(* C1 *)

\* C1: in every reachable state, a room's targetWord is non-null if and only if
\* its mode is "pictionary".
C1_TargetIffActive ==
  \A id \in DOMAIN rooms : (rooms[id].targetWord # Null) <=> (rooms[id].mode = "pictionary")

\* A room back in menu, its word cleared, right after a round was guessed.
C1_Witness ==
  \E id \in DOMAIN rooms :
    /\ rooms[id].mode = "menu"
    /\ rooms[id].targetWord = Null
    /\ SentType("roundResult")

\* C2 (as claimed): when a round starts, the pictionaryStart sent to the drawer
\* slot carries the word and the one sent to the guesser slot carries no word.
C2_WordOnlyToDrawer ==
  \A id \in DOMAIN rooms :
    (RoundStartSent /\ rooms[id].drawerSocket # rooms[id].callerSocket) =>
      \A k \in 1..Len(sent) :
        sent[k].msg.type = "pictionaryStart" =>
          /\ sent[k].to = rooms[id].drawerSocket => sent[k].msg.word = rooms[id].targetWord
          /\ sent[k].to = rooms[id].callerSocket =>
               ("word" \notin DOMAIN sent[k].msg \/ sent[k].msg.word = Null)

\* C3 (as claimed): a word generation call that settles after its room's speech
\* channel closed, with no theme heard since the reset, leaves the room in menu
\* with no target word.
C3_NoStaleRound ==
  [][\A i \in 1..Len(pending) :
       (/\ Step("wordReturn")
        /\ pending' = Settled(pending, i)
        /\ pending[i].room = last'.room
        /\ pending[i].hangup
        /\ rooms[last'.room].mode = "menu"
        /\ rooms[last'.room].theme = Null)
       => /\ rooms'[last'.room].mode = "menu"
          /\ rooms'[last'.room].targetWord = Null]_vars

\* C4: right after the close event of a phone socket is handled, its room is in
\* menu with targetWord and theme null, drawSegments empty and no phone attached.
C4_CloseResets ==
  [][Step("phoneClose") =>
       LET room == rooms'[last'.room]
       IN /\ room.mode = "menu"
          /\ room.targetWord = Null
          /\ room.theme = Null
          /\ room.drawSegments = <<>>
          /\ room.phoneSocket = NoSocket]_vars

\* A close was just handled, with a browser attached and a call in flight.
C4_Witness ==
  /\ last.op = "phoneClose"
  /\ SentType("menu")
  /\ \E i \in 1..Len(pending) : pending[i].hangup

\* C5 (as claimed): a quit or exit utterance leaves the room as it was, sends the
\* farewell to the attached phone and closes it; and a call that was in flight
\* when it was heard, no theme having been given since, makes no round active.
C5_QuitEndsIt ==
  [][/\ (Step("prompt") /\ Branch(last') = "quit")
          => LET room == rooms[last'.room]
             IN /\ rooms' = rooms
                /\ room.phoneSocket # NoSocket =>
                     /\ sent' = <<[to |-> room.phoneSocket,
                                   msg |-> [type |-> "text", token |-> Say("Goodbye", <<>>),
                                            last |-> TRUE]]>>
                     /\ sockState'[room.phoneSocket] # "open"
     /\ \A i \in 1..Len(pending) :
          (/\ Step("wordReturn")
           /\ pending' = Settled(pending, i)
           /\ pending[i].room = last'.room
           /\ pending[i].quit
           /\ rooms[last'.room].mode = "menu"
           /\ \A j \in 1..Len(pending) : pending[j].room = last'.room => pending[j].quit)
          => rooms'[last'.room].mode = "menu"]_vars

\* The round-result event of a correct guess of this word.
RoundResult(word) == [type |-> "roundResult", outcome |-> "correct", word |-> word]

\* seq is one or more copies of a followed by one or more copies of b.
FirstThen(seq, a, b) ==
  \E n \in 1..(Len(seq) - 1) :
    /\ \A k \in 1..n : seq[k] = a
    /\ \A k \in (n + 1)..Len(seq) : seq[k] = b

\* C6 (as claimed): a matching guess leaves the room in menu with targetWord and
\* theme null and drawSegments empty.
C6_CorrectClearsAll ==
  [][(Step("prompt") /\ Branch(last') = "correct") =>
       LET room == rooms'[last'.room]
       IN /\ room.mode = "menu"
          /\ room.targetWord = Null
          /\ room.theme = Null
          /\ room.drawSegments = <<>>]_vars

\* C6 (amended): a matching guess leaves the room in menu with targetWord and
\* theme null; drawSegments, the slots and the other rooms are as they were.
C6_CorrectKeepsDrawing ==
  [][(Step("prompt") /\ Branch(last') = "correct") =>
       LET old == rooms[last'.room]
       IN rooms' = [rooms EXCEPT ![last'.room] =
                      [old EXCEPT !.mode = "menu", !.targetWord = Null, !.theme = Null]]]_vars

\* A round was just guessed, and the room still holds its drawing.
C6_Witness ==
  /\ last.op = "prompt"
  /\ SentType("roundResult")
  /\ rooms[last.room].mode = "menu"
  /\ rooms[last.room].theme = Null
  /\ Len(rooms[last.room].drawSegments) > 0

\* C7: on a matching guess every attached browser is sent roundResult (correct,
\* with the word that was the target) and then menu, and the attached phone is
\* sent "You got it" and then the next-round prompt.
C7_ResultThenMenu ==
  [][(Step("prompt") /\ Branch(last') = "correct") =>
       LET old == rooms[last'.room]
           was == SelectSeq(sent', LAMBDA m : m.to = old.phoneSocket)
       IN /\ \A b \in Browsers(old) :
               LET got == SelectSeq(sent', LAMBDA m : m.to = b)
               IN FirstThen([k \in 1..Len(got) |-> got[k].msg],
                            RoundResult(old.targetWord), [type |-> "menu"])
          /\ old.phoneSocket # NoSocket =>
               [k \in 1..Len(was) |-> was[k].msg.token] =
                 <<Say("You got it", old.targetWord), Say("Round complete", <<>>)>>]_vars

\* A round was just guessed with a phone, a drawer and a guesser attached.
C7_Witness ==
  /\ last.op = "prompt"
  /\ SentType("roundResult")
  /\ rooms[last.room].phoneSocket # NoSocket
  /\ Cardinality(Browsers(rooms[last.room])) = 2

\* C8: a guess that does not match leaves every room as it was, tells the
\* attached phone to guess again, and sends every attached browser one guess
\* event with the utterance as received and correct = false.
C8_WrongGuess ==
  [][(Step("prompt") /\ Branch(last') = "wrong") =>
       LET old == rooms[last'.room]
           guess == [type |-> "guess", guess |-> last'.text, correct |-> FALSE]
       IN /\ rooms' = rooms
          /\ pending' = pending
          /\ sockState' = sockState
          /\ \A b \in Browsers(old) :
               \A k \in 1..Len(sent') : sent'[k].to = b => sent'[k].msg = guess
          /\ \A b \in Browsers(old) : \E k \in 1..Len(sent') : sent'[k].to = b
          /\ old.phoneSocket # NoSocket =>
               \E k \in 1..Len(sent') :
                 /\ sent'[k].to = old.phoneSocket
                 /\ sent'[k].msg = [type |-> "text", token |-> Say("Guess again", <<>>),
                                    last |-> TRUE]
          /\ \A k \in 1..Len(sent') : sent'[k].to \in Browsers(old) \cup {old.phoneSocket}]_vars

\* A wrong guess was just handled in a round, a phone and two browsers attached.
C8_Witness ==
  /\ last.op = "prompt"
  /\ SentType("guess")
  /\ SentSay("Guess again")
  /\ rooms[last.room].mode = "pictionary"
  /\ Cardinality(Browsers(rooms[last.room])) = 2

\* A reply that is one line of text with nothing around it.
CleanWord(reply) ==
  /\ reply # Error
  /\ reply # <<>>
  /\ Trim(reply) = reply
  /\ \A k \in 1..Len(reply) : reply[k] # "\n"

\* C9: with an API key, a theme heard in menu that is not blank, does not match
\* /random/i and holds neither quit nor exit suspends the handler on a call
\* carrying that theme; and when the call returns a word W, the round starts:
\* targetWord = W, mode "pictionary", drawSegments empty, the round-start text
\* sent to the attached phone and pictionaryStart to every attached browser.
C9_ThemeStartsRound ==
  [][/\ (/\ Step("prompt")
         /\ apiKey
         /\ rooms[last'.room].mode = "menu"
         /\ Trim(last'.text) # <<>>
         /\ ~TestRandom(last'.text)
         /\ ~IsQuit(ToLowerCase(last'.text)))
        => /\ pending' = Append(pending, Call(last'.room, last'.text))
           /\ rooms'[last'.room].theme = last'.text
     /\ (Step("wordReturn") /\ CleanWord(last'.text))
        => LET old == rooms[last'.room]
               new == rooms'[last'.room]
           IN /\ new.targetWord = last'.text
              /\ new.mode = "pictionary"
              /\ new.drawSegments = <<>>
              /\ old.phoneSocket # NoSocket =>
                   \E k \in 1..Len(sent') :
                     /\ sent'[k].to = old.phoneSocket
                     /\ sent'[k].msg.token = Say("Great choice", <<>>)
              /\ \A b \in Browsers(old) :
                   \E k \in 1..Len(sent') :
                     /\ sent'[k].to = b
                     /\ sent'[k].msg.type = "pictionaryStart"]_vars

\* The call of the theme "pizza toppings" just returned "pepperoni", a phone and
\* a browser attached.
C9_Witness ==
  /\ last.op = "wordReturn"
  /\ last.text = R_pepperoni
  /\ rooms[last.room].targetWord = R_pepperoni
  /\ rooms[last.room].theme = U_theme
  /\ rooms[last.room].phoneSocket # NoSocket
  /\ Browsers(rooms[last.room]) # {}

-----------------------------------------------------------------------------
(* The guess test on its own: a room in a round, each target in turn, and   *)
(* the caller's utterances.                                                 *)

\* Utterances the caller says before the run ends.
MaxGuesses == 2

T_rubberduck == <<"r", "u", "b", "b", "e", "r", " ", "d", "u", "c", "k">>
T_exitsign == <<"e", "x", "i", "t", " ", "s", "i", "g", "n">>
T_HotDog == <<"H", "o", "t", " ", "D", "o", "g">>
T_hottabdog == <<"h", "o", "t", "\t", "d", "o", "g">>
U_duck == <<"o", "h", " ", "a", " ", "d", "u", "c", "k">>
U_band == <<"i", "t", "'", "s", " ", "a", " ", "r", "u", "b", "b", "e", "r", " ", "b", "a", "n", "d">>
U_shout == <<"R", "U", "B", "B", "E", "R", "!">>
U_exitsign == <<"E", "x", "i", "t", " ", "s", "i", "g", "n", "!">>
U_hotdog == <<"a", " ", "h", "o", "t", " ", "d", "o", "g">>

\* Words a round can have as its target: a word of the list, or the first line
\* of what the service answered.
GuessTargets == {T_rubberduck, T_exitsign, T_HotDog, T_hottabdog, R_pepperoni, W_pizza}
GuessUtterances == {U_duck, U_band, U_shout, U_exitsign, U_hotdog, U_guess, U_theme, U_blank}

\* Room "4242" in a round: the caller on p1, the drawer on w1, the guesser on w2.
InitGuess ==
  /\ \E t \in GuessTargets :
       rooms = ("4242" :> [NewRoom("4242") EXCEPT !.phoneSocket = "p1", !.drawerSocket = "w1",
                                                  !.callerSocket = "w2", !.mode = "pictionary",
                                                  !.targetWord = t, !.theme = U_theme])
  /\ socketRoom = [s \in Sockets |-> IF s = "p2" THEN NoRoom ELSE "4242"]
  /\ sockState = [s \in Sockets |-> IF s = "p2" THEN "new" ELSE "open"]
  /\ pending = <<>>
  /\ apiKey \in BOOLEAN
  /\ sent = <<>>
  /\ last = [op |-> "start", sock |-> NoSocket, room |-> NoRoom, text |-> <<>>]
  /\ events = 0

NextGuess ==
  /\ events < MaxGuesses
  /\ \E u \in GuessUtterances : PhonePrompt("p1", u)

SpecGuess == InitGuess /\ [][NextGuess]_vars

\* The first whitespace-delimited token of a string.
FirstToken(s) ==
  LET t == Trim(s)
  IN IF \A i \in 1..Len(t) : t[i] \notin SpaceChars THEN t
     ELSE SubSeq(t, 1, (CHOOSE i \in 1..Len(t) :
                          t[i] \in SpaceChars /\ \A j \in 1..(i - 1) : t[j] \notin SpaceChars) - 1)

\* An utterance heard in a round.
GuessStep == Step("prompt") /\ rooms[last'.room].mode = "pictionary"

\* The round of the room of the last event is resolved as correct.
ResolvedCorrect ==
  /\ rooms'[last'.room].mode = "menu"
  /\ \E k \in 1..Len(sent') : sent'[k].msg = RoundResult(rooms[last'.room].targetWord)

\* C10 (as claimed): in a round an utterance resolves the round as correct if and
\* only if, lower-cased and with punctuation replaced by spaces, it contains
\* the first whitespace-delimited token of the lower-cased target.
C10_MatchIffFirstToken ==
  [][GuessStep =>
       (ResolvedCorrect <=>
          Includes(ReplaceNonWord(ToLowerCase(last'.text)),
                   FirstToken(ToLowerCase(rooms[last'.room].targetWord))))]_vars

\* C10 (amended): in a round an utterance that holds neither quit nor exit
\* resolves the round as correct if and only if, lower-cased, trimmed and with
\* every character that is not a letter, digit, underscore or whitespace
\* replaced by a space, it contains the part of the lower-cased target before
\* its first space character; an utterance that holds quit or exit never does.
\* With target "rubber duck", "oh a duck" does not resolve it and "it's a
\* rubber band" does.
C10_MatchIffFirstWord ==
  [][GuessStep =>
       \E text \in {Trim(ToLowerCase(last'.text))} :
       \E word \in {SplitFirst(ToLowerCase(rooms[last'.room].targetWord), " ")} :
          /\ ResolvedCorrect <=>
               /\ ~(Includes(text, S_quit) \/ Includes(text, S_exit))
               /\ Includes(ReplaceNonWord(text), word)
          /\ ~ResolvedCorrect => rooms' = rooms
          /\ (rooms[last'.room].targetWord = T_rubberduck /\ last'.text = U_duck)
               => ~ResolvedCorrect
          /\ (rooms[last'.room].targetWord = T_rubberduck /\ last'.text = U_band)
               => ResolvedCorrect]_vars

\* "it's a rubber band" has just resolved the round of "rubber duck".
C10_Witness ==
  /\ last.op = "prompt"
  /\ last.text = U_band
  /\ events = 1
  /\ rooms[last.room].mode = "menu"
  /\ \E k \in 1..Len(sent) : sent[k].msg = RoundResult(T_rubberduck)

-----------------------------------------------------------------------------
(* Joining and drawing.                                                     *)

\* The messages of this type among the sends of the handler that has just run.
SentOfType(type) == SelectSeq(sent', LAMBDA m : m.msg.type = type)

\* The log of a room before the step; a room not yet in the registry has none.
LogBefore(id) == IF id \in DOMAIN rooms THEN rooms[id].drawSegments ELSE <<>>

\* C11: a browser that joins a room whose drawSegments holds n >= 1 segments is
\* sent exactly one initDrawing, holding those n segments in their order, and
\* none when the log is empty; the join sends no stroke, and a stroke forwarded
\* by a later drawSegment message comes with no initDrawing.
C11_ReplayOnJoin ==
  [][/\ Step("joinWeb") =>
          /\ rooms'[last'.room].drawSegments = LogBefore(last'.room)
          /\ \A k \in 1..Len(sent') : sent'[k].to = last'.sock
          /\ SentOfType("drawSegment") = <<>>
          /\ IF Len(LogBefore(last'.room)) >= 1
               THEN /\ Len(SentOfType("initDrawing")) = 1
                    /\ SentOfType("initDrawing")[1].msg.segments = LogBefore(last'.room)
               ELSE SentOfType("initDrawing") = <<>>
     /\ Step("drawSegment") => SentOfType("initDrawing") = <<>>]_vars

\* A browser has just joined a room that holds two strokes, and was sent them.
C11_Witness ==
  /\ last.op = "joinWeb"
  /\ Len(rooms[last.room].drawSegments) = 2
  /\ \E k \in 1..Len(sent) :
       /\ sent[k].to = last.sock
       /\ sent[k].msg.type = "initDrawing"
       /\ sent[k].msg.segments = rooms[last.room].drawSegments

\* C12 (as claimed): the last message of a join is its one state event: in a
\* round, pictionaryStart with the word for a browser in the drawer slot only
\* and pictionaryStart without the word for a browser in the guesser slot only;
\* in menu, the menu event.
C12_JoinStateEvent ==
  [][Step("joinWeb") =>
       LET room == rooms'[last'.room]
           w == last'.sock
           state == SelectSeq(sent', LAMBDA m : m.msg.type \in {"pictionaryStart", "menu"})
       IN /\ Len(state) = 1
          /\ sent'[Len(sent')] = state[1]
          /\ room.mode = "menu" => state[1].msg = [type |-> "menu"]
          /\ (room.mode = "pictionary" /\ room.drawerSocket = w /\ room.callerSocket # w)
               => state[1].msg = [type |-> "pictionaryStart", word |-> room.targetWord]
          /\ (room.mode = "pictionary" /\ room.callerSocket = w /\ room.drawerSocket # w)
               => /\ state[1].msg.type = "pictionaryStart"
                  /\ ("word" \notin DOMAIN state[1].msg \/ state[1].msg.word = Null)]_vars

\* The stroke message the server forwards for a stored segment.
StrokeOf(seg) ==
  [type |-> "drawSegment", x1 |-> seg.x1, y1 |-> seg.y1, x2 |-> seg.x2, y2 |-> seg.y2]

\* C13 (as claimed): a room's drawSegments grows only while the room's mode is
\* "pictionary"; a drawSegment message handled in menu leaves it as it was.
C13_AppendOnlyInRound ==
  [][\A id \in DOMAIN rooms :
       Len(rooms'[id].drawSegments) > Len(rooms[id].drawSegments)
         => rooms[id].mode = "pictionary"]_vars

\* C14 (as claimed): a drawSegment message from a socket that is not in the
\* drawer slot of its room is neither stored nor forwarded.
C14_NonDrawerIgnored ==
  [][(Step("drawSegment") /\ last'.sock # rooms[last'.room].drawerSocket) =>
       /\ rooms'[last'.room].drawSegments = rooms[last'.room].drawSegments
       /\ sent' = <<>>]_vars

\* C15: a drawSegment message from the socket in the drawer slot appends its
\* one segment to the end of drawSegments and is forwarded to the guesser slot
\* when one is attached, and to nobody else; a stroke from any other socket, a
\* displaced drawer's included, is forwarded to nobody.
C15_DrawerStroke ==
  [][Step("drawSegment") =>
       LET old == rooms[last'.room]
           new == rooms'[last'.room]
       IN /\ Len(new.drawSegments) = Len(old.drawSegments) + 1
          /\ SubSeq(new.drawSegments, 1, Len(old.drawSegments)) = old.drawSegments
          /\ DOMAIN new.drawSegments[Len(new.drawSegments)] = {"x1", "y1", "x2", "y2"}
          /\ IF last'.sock = old.drawerSocket /\ old.callerSocket # NoSocket
               THEN sent' = <<[to |-> old.callerSocket,
                               msg |-> StrokeOf(new.drawSegments[Len(new.drawSegments)])]>>
               ELSE sent' = <<>>]_vars

\* A browser displaced from the drawer slot has just drawn: drawer and guesser
\* slots are taken by another socket, and the stroke went to nobody.
C15_Witness ==
  /\ last.op = "drawSegment"
  /\ rooms[last.room].drawerSocket \notin {NoSocket, last.sock}
  /\ rooms[last.room].callerSocket \notin {NoSocket, last.sock}
  /\ socketRoom[last.sock] = last.room
  /\ Len(rooms[last.room].drawSegments) > 0
  /\ sent = <<>>

-----------------------------------------------------------------------------
(* Several rooms: every handler, both room ids, and browsers that send       *)
(* before they join.                                                        *)

\* Events the server handles in a run over several rooms.
MaxRoomEvents == 3

\* The run is not over yet.
MoreRoomEvents == events < MaxRoomEvents

NextRooms ==
  \/ \E p \in PhoneSockets, r \in RoomIdInputs : MoreRoomEvents /\ PhoneOpen(p, r)
  \/ \E p \in PhoneSockets, u \in Utterances : MoreRoomEvents /\ PhonePrompt(p, u)
  \/ \E i \in 1..MaxRoomEvents, reply \in WordSourceReplies :
       MoreRoomEvents /\ WordSourceReturn(i, reply)
  \/ \E p \in PhoneSockets : MoreRoomEvents /\ PhoneOther(p)
  \/ \E p \in PhoneSockets : MoreRoomEvents /\ PhoneClose(p)
  \/ \E w \in WebSockets, r \in RoomIdInputs, role \in RoleInputs :
       MoreRoomEvents /\ JoinWeb(w, r, role)
  \/ \E w \in WebSockets, n \in 0..MaxRoomEvents : \E seg \in SegmentInputs(n) :
       MoreRoomEvents /\ DrawSegment(w, seg)
  \/ \E w \in WebSockets, text \in ChatInputs : MoreRoomEvents /\ DrawerChat(w, text)
  \/ \E w \in WebSockets : MoreRoomEvents /\ ClearCanvas(w)
  \/ \E w \in WebSockets : MoreRoomEvents /\ WebOther(w)
  \/ \E w \in WebSockets : MoreRoomEvents /\ WebNonJson(w)
  \/ \E w \in WebSockets : MoreRoomEvents /\ WebClose(w)

SpecRooms == Init /\ [][NextRooms]_vars

\* The sockets a room holds in its three slots.
Attached(room) == {room.phoneSocket, room.drawerSocket, room.callerSocket} \ {NoSocket}

\* The room of the channel an event arrives on, before the event is handled:
\* the room a connection or a joinWeb names, the room whose handler a settled
\* call resumes, else the room the socket opened or joined with (none for a
\* browser that has not joined).
EventRoom ==
  IF last'.op \in {"phoneOpen", "joinWeb", "wordReturn"} THEN last'.room
  ELSE socketRoom[last'.sock]

\* C16 (as claimed): the handling of an event changes no room other than the
\* room of the event's channel, and sends nothing to a socket attached to
\* another room.
C16_RoomsIndependent ==
  [][\A b \in DOMAIN rooms :
       (events' = events + 1 /\ b # EventRoom) =>
         /\ rooms'[b] = rooms[b]
         /\ \A k \in 1..Len(sent') : sent'[k].to \notin Attached(rooms[b])]_vars

\* The room ids the connections and joinWeb messages of a run can name.
RoomIds == {RoomIdOrDefault(r) : r \in RoomIdInputs}

\* C17: looking up an id not in the registry adds a room in the initial state
\* (menu, no word, no theme, no drawing, no socket) and leaves the others; looking
\* up an id in the registry changes nothing; a handler adds no room but the one
\* it looks up, a handler that only looks a room up leaves a new room in its
\* initial state, and no room ever leaves the registry.
C17_Registry ==
  [][/\ \A id \in RoomIds :
          IF id \in DOMAIN rooms THEN getRoom(id) = rooms
          ELSE /\ DOMAIN getRoom(id) = DOMAIN rooms \cup {id}
               /\ \A other \in DOMAIN rooms : getRoom(id)[other] = rooms[other]
               /\ getRoom(id)[id] =
                    [id |-> id, phoneSocket |-> NoSocket, drawerSocket |-> NoSocket,
                     callerSocket |-> NoSocket, mode |-> "menu", targetWord |-> Null,
                     drawSegments |-> <<>>, theme |-> Null]
     /\ DOMAIN rooms \subseteq DOMAIN rooms'
     /\ DOMAIN rooms' \subseteq DOMAIN rooms \cup {last'.room}
     /\ \A id \in DOMAIN rooms' : rooms'[id].id = id
     /\ (Step("webOther") \/ Step("drawerChat")) => rooms' = getRoom(last'.room)]_vars

\* A handler has just looked up a room that was there, with a browser in a
\* slot, and left it so.
C17_Witness ==
  /\ last.op \in {"webOther", "drawerChat"}
  /\ last.room \in DOMAIN rooms
  /\ Attached(rooms[last.room]) # {}

\* The slots of a room before the step; a room not yet in the registry has none taken.
SlotsBefore(id) == IF id \in DOMAIN rooms THEN rooms[id] ELSE NewRoom(id)

\* C18: each slot of a room holds one socket or none; a phone connection takes
\* the phone slot of its room and a joinWeb one of the two browser slots,
\* whoever held it, the other slots staying as they were; and the server closes
\* no socket in doing so: the former occupant's socket is as it was.
C18_SlotsReplaced ==
  [][/\ \A id \in DOMAIN rooms' :
          /\ rooms'[id].phoneSocket \in PhoneSockets \cup {NoSocket}
          /\ rooms'[id].drawerSocket \in WebSockets \cup {NoSocket}
          /\ rooms'[id].callerSocket \in WebSockets \cup {NoSocket}
     /\ Step("phoneOpen") =>
          /\ rooms'[last'.room].phoneSocket = last'.sock
          /\ rooms'[last'.room].drawerSocket = SlotsBefore(last'.room).drawerSocket
          /\ rooms'[last'.room].callerSocket = SlotsBefore(last'.room).callerSocket
          /\ \A s \in Sockets \ {last'.sock} : sockState'[s] = sockState[s]
     /\ Step("joinWeb") =>
          /\ rooms'[last'.room].phoneSocket = SlotsBefore(last'.room).phoneSocket
          /\ \/ /\ rooms'[last'.room].drawerSocket = last'.sock
                /\ rooms'[last'.room].callerSocket = SlotsBefore(last'.room).callerSocket
             \/ /\ rooms'[last'.room].callerSocket = last'.sock
                /\ rooms'[last'.room].drawerSocket = SlotsBefore(last'.room).drawerSocket
          /\ sockState' = sockState]_vars

\* A second phone has just taken the slot of the first, which is still open.
C18_Witness ==
  /\ last.op = "phoneOpen"
  /\ last.sock = "p2"
  /\ socketRoom["p1"] = last.room
  /\ sockState["p1"] = "open"
  /\ rooms[last.room].phoneSocket = "p2"

\* The event just handled came from a phone socket that its room no longer
\* holds in the phone slot.
OrphanPhoneEvent ==
  /\ events' = events + 1
  /\ last'.sock \in PhoneSockets
  /\ last'.room \in DOMAIN rooms
  /\ rooms[last'.room].phoneSocket # last'.sock

\* C19 (as claimed): a slot goes from a socket to empty only in the close event
\* of that socket; and the close event and the utterances of a phone socket
\* that another has displaced leave its room as it was.
C19_OnlyOwnCloseClears ==
  [][/\ \A id \in DOMAIN rooms :
          /\ (rooms[id].phoneSocket # NoSocket /\ rooms'[id].phoneSocket = NoSocket)
               => (Step("phoneClose") /\ last'.sock = rooms[id].phoneSocket)
          /\ (rooms[id].drawerSocket # NoSocket /\ rooms'[id].drawerSocket = NoSocket)
               => (Step("webClose") /\ last'.sock = rooms[id].drawerSocket)
          /\ (rooms[id].callerSocket # NoSocket /\ rooms'[id].callerSocket = NoSocket)
               => (Step("webClose") /\ last'.sock = rooms[id].callerSocket)
     /\ (OrphanPhoneEvent /\ last'.op \in {"phoneClose", "prompt"})
          => (rooms' = rooms /\ pending' = pending)]_vars

\* C20: when the awaited call throws, the round still
\* starts, with a word of the fixed list as its target, and the handler sends
\* only the round-start text to the phone and pictionaryStart with that word to
\* the browsers: no error reaches a socket, and no socket is closed.
C20_FailureFallsBack ==
  [][(Step("wordReturn") /\ last'.text = Error) =>
       LET new == rooms'[last'.room]
       IN /\ new.mode = "pictionary"
          /\ new.targetWord \in {W_bear, W_spaceship, W_pizza, W_guitar, W_castle}
          /\ new.drawSegments = <<>>
          /\ \A k \in 1..Len(sent') :
               \/ /\ sent'[k].to = new.phoneSocket
                  /\ sent'[k].msg = [type |-> "text", token |-> Say("Great choice", <<>>),
                                     last |-> TRUE]
               \/ /\ sent'[k].to \in Browsers(new)
                  /\ sent'[k].msg = [type |-> "pictionaryStart", word |-> new.targetWord]
          /\ sockState' = sockState]_vars

\* A call has just failed with a phone and a browser attached, and the round is on.
C20_Witness ==
  /\ last.op = "wordReturn"
  /\ last.text = Error
  /\ rooms[last.room].mode = "pictionary"
  /\ rooms[last.room].phoneSocket # NoSocket
  /\ Browsers(rooms[last.room]) # {}
  /\ SentType("pictionaryStart")

-----------------------------------------------------------------------------
(* Where the word comes from.                                               *)

\* Values generatePictionaryWord can be given as themeRaw.
ThemeInputs == {Null, <<>>, U_blank, U_random, S_random, U_theme, U_guess}

\* C21: generatePictionaryWord answers with the word picked from the fixed list,
\* whatever the service would say, and does not reach the awaited call, when
\* there is no API key, the trimmed theme is empty or the theme matches
\* /random/i; and a theme heard in menu in one of those cases starts the round
\* at once, its targetWord in the fixed list, with no call left pending. (The
\* function depends on the state through the API key alone, which never
\* changes: it is examined in the first step of a run.)
C21_ListWithoutCall ==
  [][/\ \A themeRaw \in ThemeInputs :
          (/\ events = 0
           /\ \/ ~apiKey
              \/ themeRaw \in {Null, <<>>, U_blank}
              \/ Includes(ToLowerCase(themeRaw), S_random))
          => /\ ~CallsRemote(themeRaw)
             /\ \A reply \in WordSourceReplies, pick \in pickRandomWord(PICTIONARY_WORDS) :
                  generatePictionaryWord(themeRaw, reply, pick) = pick
     /\ (/\ Step("prompt")
         /\ Branch(last') = "menu"
         /\ (~apiKey \/ Includes(ToLowerCase(last'.text), S_random)))
        => /\ pending' = pending
           /\ rooms'[last'.room].mode = "pictionary"
           /\ rooms'[last'.room].targetWord \in {W_bear, W_spaceship, W_pizza, W_guitar, W_castle}]_vars

\* With an API key set, the caller has just said "Random" in menu: the round is
\* on and no call is pending.
C21_Witness ==
  /\ apiKey
  /\ last.op = "prompt"
  /\ last.text = U_random
  /\ rooms[last.room].mode = "pictionary"
  /\ pending = <<>>

-----------------------------------------------------------------------------
(* Messages the handlers cannot use.                                        *)

\* C22 (as claimed): a message that does not parse, and a joinWeb with no
\* roomId, change no room and send nothing.
C22_MalformedDropped ==
  [][/\ (Step("webNonJson") \/ Step("phoneOther")) => (rooms' = rooms /\ sent' = <<>>)
     /\ \A w \in WebSockets, role \in RoleInputs :
          JoinWeb(w, "", role) => (rooms' = rooms /\ sent' = <<>>)]_vars

-----------------------------------------------------------------------------
(* Broadcasts.                                                              *)

\* The types of the events the handler that has just run broadcasts to the
\* browsers of its room.
Broadcasts ==
  CASE last'.op = "phoneOpen" -> {"status"}
    [] last'.op = "phoneClose" -> {"status", "menu"}
    [] last'.op = "wordReturn" -> {"pictionaryStart"}
    [] last'.op = "clearCanvas" -> {"clearCanvas"}
    [] last'.op = "prompt" ->
         (CASE Branch(last') = "correct" -> {"roundResult", "menu"}
            [] Branch(last') = "wrong" -> {"guess"}
            [] Branch(last') = "menu" /\ pending' = pending -> {"pictionaryStart"}
            [] OTHER -> {})
    [] OTHER -> {}

\* The copies of the event of this type the handler sent to socket s.
Copies(type, s) ==
  Len(SelectSeq(sent', LAMBDA m : m.to = s /\ m.msg.type = type))

\* The browser slots of a room that hold socket s.
SlotsHeld(room, s) ==
  (IF room.drawerSocket = s THEN 1 ELSE 0) + (IF room.callerSocket = s THEN 1 ELSE 0)

BroadcastTypes == {"pictionaryStart", "roundResult", "menu", "status", "clearCanvas", "guess"}

HintRelay(room, text) ==
  LET o1 == IF room.phoneSocket # NoSocket
              THEN <<[to |-> room.phoneSocket,
                      msg |-> [type |-> "text", token |-> Say("Chat", text), last |-> TRUE]]>>
              ELSE <<>>
      o2 == IF room.drawerSocket # NoSocket
              THEN <<[to |-> room.drawerSocket, msg |-> [type |-> "drawerChat", text |-> text]]>>
              ELSE <<>>
      o3 == IF room.callerSocket # NoSocket
              THEN <<[to |-> room.callerSocket, msg |-> [type |-> "drawerChat", text |-> text]]>>
              ELSE <<>>
  IN o1 \o o2 \o o3

\* C25 (as claimed): a drawerChat from the socket in the drawer slot is relayed
\* to the phone, if attached, and to both browser slots; a drawerChat from any
\* other socket is relayed to nobody.
C25_HintFromDrawerOnly ==
  [][Step("drawerChat") =>
       LET room == rooms'[last'.room]
       IN IF last'.sock = room.drawerSocket
            THEN sent' = HintRelay(room, last'.text)
            ELSE sent' = <<>>]_vars

\* C26 (as claimed): a room's drawSegments goes from non-empty to empty only in
\* a round start, a round resolution, a phone close, or a clearCanvas from the
\* socket in the drawer slot; a clearCanvas from any other socket leaves it
\* as it was and sends nothing.
C26_ClearedByDrawerOnly ==
  [][/\ \A id \in DOMAIN rooms :
          (rooms[id].drawSegments # <<>> /\ rooms'[id].drawSegments = <<>>) =>
            \/ Step("wordReturn") \/ Step("prompt") \/ Step("phoneClose")
            \/ Step("clearCanvas") /\ last'.sock = rooms[id].drawerSocket
     /\ (/\ Step("clearCanvas")
         /\ last'.room \in DOMAIN rooms
         /\ last'.sock # rooms[last'.room].drawerSocket)
        => /\ rooms'[last'.room].drawSegments = rooms[last'.room].drawSegments
           /\ sent' = <<>>]_vars

-----------------------------------------------------------------------------
(* The awaited call.                                                        *)

\* The suspended handlers of a room.
PendingOf(id) == {i \in 1..Len(pending) : pending[i].room = id}

\* C27 (as claimed): no room has more than one suspended handler: an utterance
\* heard while a call of its room is pending issues no second call.
C27_OnePendingPerRoom ==
  \A i, j \in 1..Len(pending) : pending[i].room = pending[j].room => i = j

\* An event may be handled when the run has room left for it, for the call it
\* may issue and for every call in flight to settle.
RoomForCalls == events + Len(pending) + 2 <= MaxEvents

\* One game in which every call that is issued can settle.
NextLive ==
  \/ \E p \in PhoneSockets : RoomForCalls /\ PhoneOpen(p, "4242")
  \/ \E p \in PhoneSockets, u \in RoundUtterances : RoomForCalls /\ PhonePrompt(p, u)
  \/ \E p \in PhoneSockets : RoomForCalls /\ PhoneClose(p)
  \/ \E w \in WebSockets, role \in RoleInputs : RoomForCalls /\ JoinWeb(w, "4242", role)
  \/ \E i \in 1..MaxEvents, reply \in RoundReplies : WordSourceReturn(i, reply)

\* The awaited call settles, the service answering or the client throwing: the
\* event of WordSourceReturn, whatever the handler then does with the reply.
CallSettles ==
  \E i \in 1..Len(pending), reply \in RoundReplies :
    /\ Handle("wordReturn", NoSocket, pending[i].room, reply)
    /\ pending' = Settled(pending, i)

SpecLive == Init /\ [][NextLive]_vars /\ WF_<<pending, events, last>>(CallSettles)

\* C28: a call in flight for room 4242 leads to its handler going on, after
\* which, if a phone is attached to the room, the room is in a round with a
\* target word.
C28_CallLeadsToRound ==
  (PendingOf("4242") # {}) ~>
    (/\ last.op = "wordReturn"
     /\ last.room = "4242"
     /\ rooms["4242"].phoneSocket # NoSocket =>
          (rooms["4242"].mode = "pictionary" /\ rooms["4242"].targetWord # Null))

\* A call has just settled with the phone still attached, and the round is on.
C28_Witness ==
  /\ last.op = "wordReturn"
  /\ last.room = "4242"
  /\ rooms["4242"].phoneSocket # NoSocket
  /\ rooms["4242"].mode = "pictionary"
  /\ rooms["4242"].targetWord # Null
  /\ pending = <<>>

\* C29 (as claimed): a browser that joins a room while a call of the room is
\* pending finds the room in menu with no target word, and is sent the menu
\* event and no pictionaryStart.
C29_JoinInWindowGetsMenu ==
  [][(Step("joinWeb") /\ PendingOf(last'.room) # {}) =>
       /\ rooms'[last'.room].mode = "menu"
       /\ rooms'[last'.room].targetWord = Null
       /\ Len(SentOfType("menu")) = 1
       /\ SentOfType("pictionaryStart") = <<>>]_vars

-----------------------------------------------------------------------------
(* The role of a join. *)

\* Roles a joinWeb message may carry, besides RoleInputs: other spellings of
\* "caller", a role the server does not know, a padded one.
RoleSpellings ==
  RoleInputs \cup
    { S_caller,
      <<"C", "A", "L", "L", "E", "R">>,
      <<"g", "u", "e", "s", "s", "e", "r">>,
      <<" ", "c", "a", "l", "l", "e", "r">>,
      <<"D", "r", "a", "w", "e", "r">> }

\* C30: the role of a join is "caller" when the role sent, in lower case, is
\* "caller", and "drawer" for every other role and for a missing one; a join as
\* caller takes the caller slot, every other join the drawer slot, and the
\* other browser slot and the phone slot of the room stay as they were.
C30_RoleChoosesSlot ==
  [][/\ events = 0 =>
          \A roleIn \in RoleSpellings :
            JoinRole(roleIn) = IF ToLowerCase(roleIn) = S_caller THEN S_caller ELSE S_drawer
     /\ \A w \in WebSockets, roomIdIn \in RoomIdInputs, roleIn \in RoleInputs :
          JoinWeb(w, roomIdIn, roleIn) =>
            \E before \in {SlotsBefore(last'.room)}, after \in {rooms'[last'.room]} :
              /\ after.phoneSocket = before.phoneSocket
              /\ IF ToLowerCase(roleIn) = S_caller
                   THEN after.callerSocket = w /\ after.drawerSocket = before.drawerSocket
                   ELSE after.drawerSocket = w /\ after.callerSocket = before.callerSocket]_vars

\* A browser that joined with role "Caller" holds the caller slot and not the
\* drawer slot, which another browser holds.
C30_Witness ==
  /\ last.op = "joinWeb"
  /\ rooms[last.room].callerSocket = last.sock
  /\ rooms[last.room].drawerSocket \in WebSockets \ {last.sock}

-----------------------------------------------------------------------------
(* Messages the server ignores. *)

\* The event just handled is one the server has no handler for: a phone message
\* that is not a prompt, a browser message of an unknown type or not JSON, a
\* prompt whose text is empty once trimmed.
IgnoredEvent ==
  \/ Step("phoneOther")
  \/ Step("webOther")
  \/ Step("webNonJson")
  \/ Step("prompt") /\ Trim(ToLowerCase(last'.text)) = <<>>

\* C31: an ignored event sends nothing and leaves every room, every socket and
\* every suspended handler as it was; a room the lookup of a browser message
\* enters in the registry is a new room.
C31_UnknownIgnored ==
  [][IgnoredEvent =>
       /\ sent' = <<>>
       /\ \A id \in DOMAIN rooms' : rooms'[id] = SlotsBefore(id)
       /\ DOMAIN rooms \subseteq DOMAIN rooms'
       /\ socketRoom' = socketRoom
       /\ sockState' = sockState
       /\ pending' = pending]_vars

\* A browser message of an unknown type has just been handled on a room that is
\* in a round.
C31_Witness ==
  /\ last.op = "webOther"
  /\ last.room \in DOMAIN rooms
  /\ rooms[last.room].mode = "pictionary"
  /\ rooms[last.room].targetWord # Null

-----------------------------------------------------------------------------
(* The phone comes and goes. *)

\* The types of the events the handler that has just run sent to socket s, in
\* the order of sending.
TypesTo(s) ==
  LET to == SelectSeq(sent', LAMBDA m : m.to = s)
  IN [k \in 1..Len(to) |-> to[k].msg.type]

\* n events of one type.
Repeat(type, n) == [k \in 1..n |-> type]

\* What the phone's arrival leaves alone in its room.
RoundOf(room) ==
  [mode |-> room.mode, targetWord |-> room.targetWord, drawSegments |-> room.drawSegments]

-----------------------------------------------------------------------------
(* Within a round. *)

\* C33 (as claimed): while a room stays in mode "pictionary" its targetWord
\* does not change, and its drawSegments either stays, or gains one segment at
\* its end, or is emptied by a clearCanvas message.
C33_RoundKeepsWordAndLog ==
  [][\A id \in DOMAIN rooms :
       (rooms[id].mode = "pictionary" /\ rooms'[id].mode = "pictionary") =>
         /\ rooms'[id].targetWord = rooms[id].targetWord
         /\ \/ rooms'[id].drawSegments = rooms[id].drawSegments
            \/ /\ Len(rooms'[id].drawSegments) = Len(rooms[id].drawSegments) + 1
               /\ SubSeq(rooms'[id].drawSegments, 1, Len(rooms[id].drawSegments))
                    = rooms[id].drawSegments
            \/ /\ Step("clearCanvas")
               /\ rooms'[id].drawSegments = <<>>]_vars

\* C34 (as claimed): a room in mode "pictionary" has a socket in its phone slot.
C34_RoundHasPhone ==
  \A id \in DOMAIN rooms : rooms[id].mode = "pictionary" => rooms[id].phoneSocket # NoSocket

-----------------------------------------------------------------------------
(* The caller quits. *)

\* The utterances that have "quit" or "exit" in them, in any case.
QuitUtterances ==
  {u \in Utterances :
     \E text \in {Trim(ToLowerCase(u))} : Includes(text, S_quit) \/ Includes(text, S_exit)}

\* The event just handled is one of those utterances, heard in a room that has
\* a phone attached.
QuitHeard ==
  /\ Step("prompt")
  /\ rooms[last'.room].phoneSocket # NoSocket
  /\ last'.text \in QuitUtterances

\* C35: a quit or exit utterance heard in a room with a phone attached sends the
\* farewell, and nothing else, to that phone, which was not yet closed, and the
\* handler has then called close() on it; the room is as it was; and the close
\* event of a phone leaves its room in menu with no target word and an empty
\* drawSegments.
C35_QuitThenReset ==
  [][/\ QuitHeard =>
          \E ph \in {rooms[last'.room].phoneSocket} :
            /\ sockState[ph] \in {"open", "closing"}
            /\ Len(sent') = 1
            /\ sent'[1].to = ph
            /\ sent'[1].msg.type = "text"
            /\ sent'[1].msg.token.id = "Goodbye"
            /\ sockState' = [sockState EXCEPT ![ph] = "closing"]
            /\ rooms' = rooms
     /\ Step("phoneClose") =>
          /\ rooms'[last'.room].mode = "menu"
          /\ rooms'[last'.room].targetWord = Null
          /\ rooms'[last'.room].drawSegments = <<>>
          /\ sockState'[last'.sock] = "closed"]_vars

\* The caller has just quit in the middle of a round with a drawing on the
\* canvas: the farewell is sent, close() is called, the round still stands.
C35_Witness ==
  /\ last.op = "prompt"
  /\ last.text = U_quit
  /\ sockState[last.sock] = "closing"
  /\ rooms[last.room].phoneSocket = last.sock
  /\ rooms[last.room].mode = "pictionary"
  /\ rooms[last.room].drawSegments # <<>>
  /\ Len(sent) = 1

-----------------------------------------------------------------------------
(* Browsers and their slots. *)

\* C36 (as claimed): no slot of any room holds a browser socket whose close
\* event has been handled, and no handler sends to such a socket.
C36_ClosedNotReferenced ==
  \A w \in WebSockets :
    sockState[w] = "closed" =>
      /\ \A id \in DOMAIN rooms : w \notin Browsers(rooms[id])
      /\ \A k \in 1..Len(sent) : sent[k].to # w

\* The browser slots that hold socket s, over all rooms.
SlotsOf(s) ==
  {<<id, "drawer">> : id \in {i \in DOMAIN rooms : rooms[i].drawerSocket = s}}
    \cup {<<id, "caller">> : id \in {i \in DOMAIN rooms : rooms[i].callerSocket = s}}

\* C37 (as claimed): a browser socket is in at most one slot, over all rooms and
\* both roles, and no handler sends the same event twice to one socket.
C37_OneSlotPerBrowser ==
  /\ \A w \in WebSockets : Cardinality(SlotsOf(w)) <= 1
  /\ \A j, k \in 1..Len(sent) : (sent[j] = sent[k]) => j = k

-----------------------------------------------------------------------------
(* The page: what a browser shows.                                          *)

\* ws.onmessage of the /play page: the segments on the canvas after one message.
\* initDrawing clears the canvas and draws the segments it carries,
\* pictionaryStart and clearCanvas clear it, a drawSegment is drawn by the page
\* of a caller; no other message touches the canvas.
ClientOn(role, canvas, msg) ==
  IF msg.type = "initDrawing" THEN msg.segments
  ELSE IF msg.type = "pictionaryStart" THEN <<>>
  ELSE IF msg.type = "clearCanvas" THEN <<>>
  ELSE IF msg.type = "drawSegment" /\ role = S_caller
    THEN Append(canvas, [x1 |-> msg.x1, y1 |-> msg.y1, x2 |-> msg.x2, y2 |-> msg.y2])
  ELSE canvas

\* The canvas after the messages of a sequence of sends, taken in their order.
RECURSIVE ClientAfter(_, _, _)
ClientAfter(role, canvas, sends) ==
  IF sends = <<>> THEN canvas
  ELSE ClientAfter(role, ClientOn(role, canvas, Head(sends).msg), Tail(sends))

\* The roles a page can have: /play?role=drawer and /play?role=caller.
PageRoles == {S_drawer, S_caller}

\* C38 (as claimed): a page that joins a room in a round whose drawSegments is
\* not empty, and handles the replies to its join in the order they were sent,
\* shows the segments of drawSegments on its canvas.
C38_ReplayShown ==
  [][(/\ Step("joinWeb")
      /\ rooms'[last'.room].mode = "pictionary"
      /\ rooms'[last'.room].drawSegments # <<>>) =>
       \A role \in PageRoles :
         ClientAfter(role, <<>>, SelectSeq(sent', LAMBDA m : m.to = last'.sock))
           = rooms'[last'.room].drawSegments]_vars

\* C39 (as claimed): when a handler empties the drawSegments of a room, every
\* browser attached to the room is sent an event that clears its page's canvas:
\* a page that showed the segments shows none after the handler's messages.
C39_EmptiedLogClearsPages ==
  [][\A id \in DOMAIN rooms :
       (rooms[id].drawSegments # <<>> /\ rooms'[id].drawSegments = <<>>) =>
         \A w \in Browsers(rooms'[id]), role \in PageRoles :
           /\ \E k \in 1..Len(sent') :
                sent'[k].to = w /\ sent'[k].msg.type \in {"pictionaryStart", "clearCanvas"}
           /\ ClientAfter(role, rooms[id].drawSegments,
                          SelectSeq(sent', LAMBDA m : m.to = w)) = <<>>]_vars

====
